---- MODULE Spec2Model ----
(***************************************************************************)
(* Model of src/adapters/shared/llmChatTemplates.ts (the chat template     *)
(* registry and the message-to-prompt rendering) and of the instrumentation *)
(* flags module (INSTRUMENTATION_IGNORED_KEYS).                            *)
(*                                                                         *)
(* Three specifications share the module:                                  *)
(*   Spec        the registry: register / has / get on the static object   *)
(*   SpecRender  messagesToPrompt of a built-in template on a message list *)
(*   SpecEnv     the module-load computation of INSTRUMENTATION_IGNORED_KEYS*)
(***************************************************************************)
EXTENDS Integers, Sequences, FiniteSets, TLC

VARIABLES
  registry,     \* own properties of LLMChatTemplates.registry: name -> template reference
  proto,        \* [[Prototype]] of the registry object: ObjectPrototype or a template reference
  last,         \* the last call on LLMChatTemplates and what it did
  messages,     \* SpecRender: the BaseMessage[] handed to messagesToPrompt
  tplName,      \* SpecRender: the built-in template used
  prompt,       \* SpecRender: the rendered string
  rpc,          \* SpecRender: "input" before the call, "done" after
  env,          \* SpecEnv: process.env.BEE_FRAMEWORK_INSTRUMENTATION_IGNORED_KEYS
  ignoredKeys,  \* SpecEnv: INSTRUMENTATION_IGNORED_KEYS
  epc           \* SpecEnv: "start" before module load, "loaded" after

vars == <<registry, proto, last, messages, tplName, prompt, rpc, env, ignoredKeys, epc>>
regVars == <<registry, proto, last>>
renderVars == <<messages, tplName, prompt, rpc>>
envVars == <<env, ignoredKeys, epc>>

(***************************************************************************)
(* Template syntax trees (the Mustache source of each PromptTemplate).     *)
(***************************************************************************)
Text(s) == [k |-> "text", s |-> s]
Var(n) == [k |-> "var", n |-> n]
Sec(n, body) == [k |-> "sec", n |-> n, body |-> body]

\* Values of a render view, tagged by their JavaScript type.
Str(s) == [t |-> "str", v |-> s]
Arr(a) == [t |-> "arr", v |-> a]
Obj(o) == [t |-> "obj", v |-> o]
Undefined == [t |-> "undef", v |-> ""]


(***************************************************************************)
(* The template renderer (PromptTemplate.render, a Mustache renderer):     *)
(* named variables, sections keyed by truthiness, repeated sections.       *)
(***************************************************************************)
RECURSIVE Lookup(_, _)
\* Context.lookup: the innermost view that is an object having the name.
Lookup(ctx, name) ==
  IF ctx = <<>> THEN Undefined
  ELSE LET top == ctx[Len(ctx)] IN
       IF top.t = "obj" /\ name \in DOMAIN top.v THEN top.v[name]
       ELSE Lookup(SubSeq(ctx, 1, Len(ctx) - 1), name)

RECURSIVE JoinValues(_)
RECURSIVE StringOf(_)
\* String(value): an array is its items joined by ",".
StringOf(val) ==
  CASE val.t = "str" -> val.v
    [] val.t = "arr" -> JoinValues(val.v)
    [] val.t = "obj" -> "[object Object]"
    [] OTHER -> ""

JoinValues(a) ==
  IF a = <<>> THEN ""
  ELSE IF Len(a) = 1 THEN StringOf(a[1])
  ELSE StringOf(a[1]) \o "," \o JoinValues(Tail(a))

\* JavaScript truthiness of a view value (an empty array is truthy).
Truthy(val) ==
  CASE val.t = "undef" -> FALSE
    [] val.t = "str" -> val.v # ""
    [] OTHER -> TRUE

RECURSIVE RenderTokens(_, _)
RECURSIVE RenderItems(_, _, _)
\* A section: nothing for a falsy value, once per item for an array, once otherwise.
RenderSection(tok, ctx) ==
  LET value == Lookup(ctx, tok.n) IN
  IF ~Truthy(value) THEN ""
  ELSE IF value.t = "arr" THEN RenderItems(tok.body, ctx, value.v)
  ELSE RenderTokens(tok.body, Append(ctx, value))

RenderItems(body, ctx, items) ==
  IF items = <<>> THEN ""
  ELSE RenderTokens(body, Append(ctx, items[1])) \o RenderItems(body, ctx, Tail(items))

RenderToken(tok, ctx) ==
  CASE tok.k = "text" -> tok.s
    [] tok.k = "var" -> StringOf(Lookup(ctx, tok.n))
    [] OTHER -> RenderSection(tok, ctx)

RenderTokens(tokens, ctx) ==
  IF tokens = <<>> THEN ""
  ELSE RenderToken(tokens[1], ctx) \o RenderTokens(Tail(tokens), ctx)

\* template.render(view)
Render(template, view) == RenderTokens(template, <<Obj(view)>>)

(***************************************************************************)
(* messagesToPromptFactory                                                 *)
(***************************************************************************)
NoOverride == [k \in {} |-> "undefined"]

\* pickBy({system, user, assistant, ...rolesOverride}, isDefined)
RolesOf(rolesOverride) ==
  LET base == [system |-> "system", user |-> "user", assistant |-> "assistant"]
      merged == [k \in DOMAIN base \cup DOMAIN rolesOverride |->
                   IF k \in DOMAIN rolesOverride THEN rolesOverride[k] ELSE base[k]]
      kept == {k \in DOMAIN merged : merged[k] # "undefined"}
  IN [k \in kept |-> merged[k]]

MatchAnyRole(message, role) == Arr(<<Str(message.text)>>)

\* (role) => message.role === role ? [message.text] : []
RoleBucket(message, role) ==
  IF message.role = role THEN Arr(<<Str(message.text)>>) ELSE Arr(<<>>)

\* mapValues(roles, ...) of one message
MessageView(roles, message) == Obj([k \in DOMAIN roles |-> RoleBucket(message, roles[k])])

\* messagesToPrompt(template)(messages)
MessagesToPrompt(roles, template, msgs) ==
  Render(template, [messages |-> Arr([i \in 1..Len(msgs) |-> MessageView(roles, msgs[i])])])

(***************************************************************************)
(* The built-in templates                                                  *)
(***************************************************************************)
Llama3Sections ==
  << Sec("system", <<Text("<|begin_of_text|><|start_header_id|>system<|end_header_id|>\n\n"),
                     Var("system"), Text("<|eot_id|>")>>),
     Sec("user", <<Text("<|start_header_id|>user<|end_header_id|>\n\n"),
                   Var("user"), Text("<|eot_id|>")>>),
     Sec("assistant", <<Text("<|start_header_id|>assistant<|end_header_id|>\n\n"),
                        Var("assistant"), Text("<|eot_id|>")>>) >>

IpythonSection ==
  Sec("ipython", <<Text("<|start_header_id|>ipython<|end_header_id|>\n\n"),
                   Var("ipython"), Text("<|eot_id|>")>>)

Llama3Tail == Text("<|start_header_id|>assistant<|end_header_id|>\n")

llama31StopEmpty ==
  [ template |-> <<Sec("messages", Append(Llama3Sections, IpythonSection)), Llama3Tail>>,
    messagesToPrompt |-> RolesOf([ipython |-> "ipython"]),
    parameters |-> [stop_sequence |-> <<>>] ]

llama31 ==
  [ template |-> <<Sec("messages", Append(Llama3Sections, IpythonSection)), Llama3Tail>>,
    messagesToPrompt |-> RolesOf([ipython |-> "ipython"]),
    parameters |-> [stop_sequence |-> <<"<|eot_id|>">>] ]

llama3StopAfterOpenHeader ==
  [ template |-> <<Sec("messages", Llama3Sections), Llama3Tail, Text("<|eot_id|>")>>,
    messagesToPrompt |-> RolesOf(NoOverride),
    parameters |-> [stop_sequence |-> <<"<|eot_id|>">>] ]

llama3 ==
  [ template |-> <<Sec("messages", Llama3Sections), Llama3Tail>>,
    messagesToPrompt |-> RolesOf(NoOverride),
    parameters |-> [stop_sequence |-> <<"<|eot_id|>">>] ]

qwen2 ==
  [ template |->
      << Sec("messages",
           << Sec("system", <<Text("<|im_start|>system\n"), Var("system"),
                              Text("<|im_end|>\n"), Var("end")>>),
              Sec("user", <<Text("<|im_start|>user\n"), Var("user"),
                            Text("<|im_end|>\n"), Var("end")>>),
              Sec("assistant", <<Text("<|im_start|>assistant\n"), Var("assistant"),
                                 Text("<|im_end|>\n"), Var("end")>>) >>),
         Text("<|im_start|>assistant\n") >>,
    messagesToPrompt |-> RolesOf(NoOverride),
    parameters |-> [stop_sequence |-> <<"<|im_end|>">>] ]


(***************************************************************************)
(* The registry object.  Template objects live on the heap and are named   *)
(* by reference; === on templates is equality of references.               *)
(***************************************************************************)
BuiltinNames == {"llama3.1", "llama3", "qwen2"}

\* The registry literal: name -> reference of the built-in template object.
BuiltinRegistry ==
  [n \in BuiltinNames |->
     CASE n = "llama3.1" -> "llama31" [] n = "llama3" -> "llama3" [] OTHER -> "qwen2"]

\* Templates a caller passes to register (stop_sequence: string[] may be empty).
CallerTemplates == {"t1", "t2"}

TemplateRefs == {"llama31", "llama3", "qwen2"} \cup CallerTemplates

\* The object behind a template reference.
TemplateObj(ref) ==
  CASE ref = "llama31" -> llama31
    [] ref = "llama3" -> llama3
    [] ref = "qwen2" -> qwen2
    [] ref = "t1" -> [ template |-> <<Sec("messages", <<Sec("user", <<Var("user"), Text("</s>")>>)>>)>>,
                       messagesToPrompt |-> RolesOf(NoOverride),
                       parameters |-> [stop_sequence |-> <<"</s>">>] ]
    [] OTHER -> [ template |-> <<Sec("messages", <<Sec("user", <<Var("user"), Text("\n")>>)>>)>>,
                  messagesToPrompt |-> RolesOf(NoOverride),
                  parameters |-> [stop_sequence |-> <<>>] ]

\* Model names the calls are made with.
Names == {"", "llama3.1", "llama3", "qwen2", "x", "toString", "__proto__", "parameters"}

ObjectPrototype == "Object.prototype"

\* Properties every object literal inherits from Object.prototype.
ObjectPrototypeKeys ==
  {"constructor", "toString", "valueOf", "hasOwnProperty", "isPrototypeOf",
   "propertyIsEnumerable", "toLocaleString", "__proto__"}

\* Own properties of a Template object.
TemplateKeys == {"template", "messagesToPrompt", "parameters"}

\* Values a property read can give.
TemplateValue(ref) == [kind |-> "template", of |-> ref]
MemberValue(ref, name) == [kind |-> "member", of |-> ref, name |-> name]
InheritedValue(name) == [kind |-> "inherited", of |-> ObjectPrototype, name |-> name]
NoValue == [kind |-> "none", of |-> "none"]

\* Property names found on the prototype chain above the registry.
ChainKeys(p) == IF p = ObjectPrototype THEN ObjectPrototypeKeys
                ELSE TemplateKeys \cup ObjectPrototypeKeys

\* model in this.registry
InRegistry(model, reg, p) == model \in DOMAIN reg \/ model \in ChainKeys(p)

\* this.registry[model]
ReadRegistry(model, reg, p) ==
  IF model \in DOMAIN reg THEN TemplateValue(reg[model])
  ELSE IF model = "__proto__" THEN
         (IF p = ObjectPrototype THEN InheritedValue(model) ELSE TemplateValue(p))
  ELSE IF p # ObjectPrototype /\ model \in TemplateKeys THEN MemberValue(p, model)
  ELSE IF model \in ObjectPrototypeKeys THEN InheritedValue(model)
  ELSE NoValue

\* Object.keys(this.registry): the own enumerable property names (inherited names
\* and "__proto__" are not listed); the order of the list is not modelled.
ObjectKeys(reg) == DOMAIN reg

\* The own properties after this.registry[model] = template.
WriteOwn(model, template, reg) ==
  IF model = "__proto__" THEN reg
  ELSE [k \in DOMAIN reg \cup {model} |-> IF k = model THEN template ELSE reg[k]]

\* The [[Prototype]] after this.registry[model] = template.
WriteProto(model, template, p) == IF model = "__proto__" THEN template ELSE p

NeverConflict(model, override, reg, p) == FALSE

\* model in this.registry && !override
RegisterConflict(model, override, reg, p) == InRegistry(model, reg, p) /\ ~override

\* has(model): Boolean(model && model in this.registry)
HasIn(model, reg, p) == model # "" /\ InRegistry(model, reg, p)

\* get(model): the outcome and the value returned.
GetIn(model, reg, p) ==
  IF ~HasIn(model, reg, p)
    THEN [outcome |-> "NotFound", ret |-> NoValue, validModels |-> ObjectKeys(reg)]
    ELSE [outcome |-> "ok", ret |-> ReadRegistry(model, reg, p), validModels |-> {}]

Has(model) == HasIn(model, registry, proto)
Get(model) == GetIn(model, registry, proto)

Call(op, model, template, override, outcome, ret, validModels) ==
  [op |-> op, model |-> model, template |-> template, override |-> override,
   outcome |-> outcome, ret |-> ret, validModels |-> validModels]

RegInit ==
  /\ registry = BuiltinRegistry
  /\ proto = ObjectPrototype
  /\ last = Call("none", "", "none", FALSE, "ok", NoValue, {})

\* static register(model, template, override = false)
register(model, template, override) ==
  IF RegisterConflict(model, override, registry, proto)
    THEN /\ last' = Call("register", model, template, override, "Conflict", NoValue, {})
         /\ UNCHANGED <<registry, proto>>
    ELSE /\ registry' = WriteOwn(model, template, registry)
         /\ proto' = WriteProto(model, template, proto)
         /\ last' = Call("register", model, template, override, "ok", NoValue, {})

\* static has(model)
has(model) ==
  /\ last' = Call("has", model, "none", FALSE, "ok",
                  [kind |-> "boolean", of |-> IF Has(model) THEN "true" ELSE "false"], {})
  /\ UNCHANGED <<registry, proto>>

\* static get(model)
get(model) ==
  /\ LET r == Get(model) IN
       last' = Call("get", model, "none", FALSE, r.outcome, r.ret, r.validModels)
  /\ UNCHANGED <<registry, proto>>

RenderIdle == messages = <<>> /\ tplName = "llama3" /\ prompt = "" /\ rpc = "idle"
EnvIdle == env = <<>> /\ ignoredKeys = <<>> /\ epc = "idle"

Init == RegInit /\ RenderIdle /\ EnvIdle

Register == \E model \in Names, template \in CallerTemplates, override \in BOOLEAN :
              register(model, template, override) /\ UNCHANGED <<renderVars, envVars>>
HasCall == \E model \in Names : has(model) /\ UNCHANGED <<renderVars, envVars>>
GetCall == \E model \in Names : get(model) /\ UNCHANGED <<renderVars, envVars>>

Next == Register \/ HasCall \/ GetCall

Spec == Init /\ [][Next]_vars


(***************************************************************************)
(* SpecRender: one call of a built-in template's messagesToPrompt.         *)
(***************************************************************************)
MaxMsgs == 3
Roles == {"system", "user", "assistant", "ipython", "tool"}
Texts == {"", "a", "b"}
Messages == [role : Roles, text : Texts]
MessageLists == UNION {[1..n -> Messages] : n \in 0..MaxMsgs}

\* LLMChatTemplates.get(name) on the registry as loaded.
Builtin(name) == TemplateObj(BuiltinRegistry[name])

\* template.messagesToPrompt(template.template)(messages)
PromptOf(name, msgs) ==
  MessagesToPrompt(Builtin(name).messagesToPrompt, Builtin(name).template, msgs)

RenderInit ==
  /\ messages \in MessageLists
  /\ tplName \in BuiltinNames
  /\ prompt = ""
  /\ rpc = "input"

RenderPrompt ==
  /\ rpc = "input"
  /\ prompt' = PromptOf(tplName, messages)
  /\ rpc' = "done"
  /\ UNCHANGED <<messages, tplName, regVars, envVars>>

RenderNext == RenderPrompt

InitRender == RegInit /\ RenderInit /\ EnvIdle

SpecRender == InitRender /\ [][RenderNext]_vars

(***************************************************************************)
(* SpecEnv: the module-load computation of INSTRUMENTATION_IGNORED_KEYS.   *)
(* Strings are sequences of characters.                                    *)
(***************************************************************************)
MaxEnvLen == 4
Chars == {"a", "b", ","}
EnvStrings == UNION {[1..n -> Chars] : n \in 0..MaxEnvLen}
Unset == [set |-> FALSE, value |-> <<>>]
EnvValues == {Unset} \cup {[set |-> TRUE, value |-> v] : v \in EnvStrings}

\* parseEnv(key, z.string(), defaultValue): the variable's value, the default when unset.
ParseEnv(e, defaultValue) == IF e.set THEN e.value ELSE defaultValue

RECURSIVE SplitFrom(_, _, _, _)
\* Scan s from position i; cur is the entry being read, acc the entries closed so far.
SplitFrom(s, sep, i, st) ==
  IF i > Len(s) THEN Append(st.acc, st.cur)
  ELSE IF s[i] = sep THEN SplitFrom(s, sep, i + 1, [acc |-> Append(st.acc, st.cur), cur |-> <<>>])
  ELSE SplitFrom(s, sep, i + 1, [acc |-> st.acc, cur |-> Append(st.cur, s[i])])

\* String.prototype.split(sep): "" gives [""].
Split(s, sep) == SplitFrom(s, sep, 1, [acc |-> <<>>, cur |-> <<>>])

KeepAll(item) == TRUE

\* (item) => item.length > 0
NonEmptyItem(item) == Len(item) > 0

RECURSIVE Filter(_)
\* Array.prototype.filter with NonEmptyItem
Filter(a) ==
  IF a = <<>> THEN <<>>
  ELSE IF NonEmptyItem(a[1]) THEN <<a[1]>> \o Filter(Tail(a))
  ELSE Filter(Tail(a))

\* parseEnv(...).split(",").filter(...)
IgnoredKeysOf(e) == Filter(Split(ParseEnv(e, <<>>), ","))

EnvInit ==
  /\ env \in EnvValues
  /\ ignoredKeys = <<>>
  /\ epc = "start"

LoadModule ==
  /\ epc = "start"
  /\ ignoredKeys' = IgnoredKeysOf(env)
  /\ epc' = "loaded"
  /\ UNCHANGED <<env, regVars, renderVars>>

EnvNext == LoadModule

InitEnv == RegInit /\ RenderIdle /\ EnvInit

SpecEnv == InitEnv /\ [][EnvNext]_vars


(***************************************************************************)
(* Properties of the registry (Spec)                                       *)
(***************************************************************************)
\* The names that are registered: the built-ins and every name a successful
\* register was called with (a write to "__proto__" lands in the prototype).
Registered == DOMAIN registry \cup (IF proto # ObjectPrototype THEN {"__proto__"} ELSE {})

StopSequenceOf(value) == TemplateObj(value.of).parameters.stop_sequence

\* C1: after a successful register(x, t), for every model name x, the next
\* get(x) returns exactly t with no error.
C1_RegisterThenGet ==
  (last.op = "register" /\ last.outcome = "ok")
    => (Get(last.model).outcome = "ok" /\ Get(last.model).ret = TemplateValue(last.template))

\* C2: register(model, t2) without override on a name that is already a registry
\* key fails with Conflict and leaves every key of the registry mapped as before.
C2_ConflictKeepsRegistry ==
  [][(last'.op = "register" /\ ~last'.override /\ last'.model \in DOMAIN registry)
       => (last'.outcome = "Conflict" /\ registry' = registry /\ proto' = proto)]_vars

C2_Witness ==
  /\ last.op = "register" /\ ~last.override /\ last.outcome = "Conflict"
  /\ last.model = "x" /\ last.template = "t2"
  /\ "x" \in DOMAIN registry /\ registry["x"] = "t1"

\* C3: has(model) is true iff model is a non-empty string that is a registered
\* name (a built-in or a name inserted by an earlier successful register).
C3_HasIffRegistered ==
  last.op = "has" => (last.ret.of = "true" <=> (last.model # "" /\ last.model \in Registered))

\* C4: get(model) on a name that is not registered fails with NotFound, its
\* validModels lists exactly the registered names, and no template is returned.
C4_GetUnregisteredNotFound ==
  (last.op = "get" /\ last.model \notin Registered)
    => (last.outcome = "NotFound" /\ last.ret = NoValue /\ last.validModels = Registered)

\* C5: register(model, t2, override=true) always succeeds; afterwards get(model)
\* returns t2 and every other key maps to the template it had before.
C5_OverrideAlwaysRegisters ==
  [][(last'.op = "register" /\ last'.override)
       => /\ last'.outcome = "ok"
          /\ GetIn(last'.model, registry', proto').outcome = "ok"
          /\ GetIn(last'.model, registry', proto').ret = TemplateValue(last'.template)
          /\ \A k \in DOMAIN registry \ {last'.model} :
               k \in DOMAIN registry' /\ registry'[k] = registry[k]]_vars

\* C6 as stated: in every state, for each built-in name, has(name) is true and
\* get(name) returns a template whose stop_sequence list is non-empty.
C6_BuiltinsAlwaysHaveStop ==
  \A n \in BuiltinNames :
    /\ Has(n)
    /\ Get(n).outcome = "ok"
    /\ Get(n).ret.kind = "template"
    /\ StopSequenceOf(Get(n).ret) # <<>>

\* C6 amended: for each built-in name, has(name) is true and get(name) returns a
\* template in every state; while the name still maps to its built-in template
\* (it has not been re-registered with override), the stop_sequence is non-empty.
C6_BuiltinsHaveStopUntilReplaced ==
  \A n \in BuiltinNames :
    /\ Has(n)
    /\ Get(n).outcome = "ok"
    /\ Get(n).ret.kind = "template"
    /\ (n \notin DOMAIN registry \/ registry[n] \notin CallerTemplates)
         => (Get(n).ret = TemplateValue(BuiltinRegistry[n]) /\ StopSequenceOf(Get(n).ret) # <<>>)

C6_Witness ==
  /\ last.op = "get" /\ last.model = "qwen2" /\ last.outcome = "ok"
  /\ last.ret = TemplateValue("qwen2")
  /\ StopSequenceOf(last.ret) = <<"<|im_end|>">>
  /\ registry["llama3"] = "t2"

\* C10: the set of registry keys never shrinks; has and get never change the
\* registry; a failing register changes nothing; a successful register adds or
\* replaces exactly the one key it was called with.
C10_OnlyRegisterWritesItsKey ==
  [][/\ DOMAIN registry \subseteq DOMAIN registry'
     /\ (last'.op \in {"has", "get"} \/ last'.outcome # "ok")
          => (registry' = registry /\ proto' = proto)
     /\ (last'.op = "register" /\ last'.outcome = "ok")
          => /\ DOMAIN registry' = DOMAIN registry \cup {last'.model}
             /\ registry'[last'.model] = last'.template
             /\ \A k \in DOMAIN registry \ {last'.model} : registry'[k] = registry[k]]_vars


(***************************************************************************)
(* Properties of the rendering (SpecRender)                                *)
(***************************************************************************)
\* The header the llama3 family puts before a message of the role.
Llama3Header(role) ==
  (IF role = "system" THEN "<|begin_of_text|>" ELSE "")
    \o "<|start_header_id|>" \o role \o "<|end_header_id|>\n\n"

RECURSIVE Llama3Turns(_)
\* One closed section per message, in the order of the messages.
Llama3Turns(msgs) ==
  IF msgs = <<>> THEN ""
  ELSE Llama3Header(msgs[1].role) \o msgs[1].text \o "<|eot_id|>" \o Llama3Turns(Tail(msgs))

\* The roles each built-in template's role mapping recognizes.
RecognizedRoles(name) ==
  {"system", "user", "assistant"} \cup (IF name = "llama3.1" THEN {"ipython"} ELSE {})

RemoveAt(seq, i) == SubSeq(seq, 1, i - 1) \o SubSeq(seq, i + 1, Len(seq))

\* C7: system/user/assistant messages rendered through llama3 give one section
\* per message (its text in its role's header, closed by <|eot_id|>) in input
\* order, followed by a single open assistant header with no stop marker.
C7_Llama3Rendering ==
  (rpc = "done" /\ tplName = "llama3"
     /\ \A i \in 1..Len(messages) : messages[i].role \in {"system", "user", "assistant"})
    => prompt = Llama3Turns(messages) \o "<|start_header_id|>assistant<|end_header_id|>\n"

C7_Witness ==
  /\ rpc = "done" /\ tplName = "llama3"
  /\ messages = << [role |-> "system", text |-> "a"], [role |-> "user", text |-> "b"],
                   [role |-> "assistant", text |-> "a"] >>
  /\ prompt = "<|begin_of_text|><|start_header_id|>system<|end_header_id|>\n\na<|eot_id|>"
                \o "<|start_header_id|>user<|end_header_id|>\n\nb<|eot_id|>"
                \o "<|start_header_id|>assistant<|end_header_id|>\n\na<|eot_id|>"
                \o "<|start_header_id|>assistant<|end_header_id|>\n"

\* C8: a message whose role the template's role mapping does not recognize
\* contributes nothing: the output equals that of the sequence without it.
C8_UnrecognizedRoleDropped ==
  rpc = "done" =>
    \A i \in 1..Len(messages) :
      messages[i].role \notin RecognizedRoles(tplName)
        => prompt = PromptOf(tplName, RemoveAt(messages, i))

C8_Witness ==
  /\ rpc = "done" /\ tplName = "llama3.1"
  /\ messages = << [role |-> "user", text |-> "a"], [role |-> "tool", text |-> "b"],
                   [role |-> "ipython", text |-> "b"] >>
  /\ prompt = "<|start_header_id|>user<|end_header_id|>\n\na<|eot_id|>"
                \o "<|start_header_id|>ipython<|end_header_id|>\n\nb<|eot_id|>"
                \o "<|start_header_id|>assistant<|end_header_id|>\n"

(***************************************************************************)
(* Properties of INSTRUMENTATION_IGNORED_KEYS (SpecEnv)                    *)
(***************************************************************************)
\* The positions of s where a non-empty comma-separated entry starts.
EntryStarts(s) == {i \in 1..Len(s) : s[i] # "," /\ (i = 1 \/ s[i - 1] = ",")}

\* The last position of the entry that starts at i.
EntryEnd(s, i) ==
  CHOOSE j \in i..Len(s) :
    /\ \A k \in i..j : s[k] # ","
    /\ (j = Len(s) \/ s[j + 1] = ",")

\* The k-th smallest element of a set of positions.
KthStart(S, k) == CHOOSE i \in S : Cardinality({j \in S : j < i}) = k - 1

\* C9: the list is empty when the variable is unset; otherwise it is the
\* comma-separated entries of the value in their order with the empty entries
\* dropped ("a,,b" gives ["a","b"]); it never holds an empty string.
C9_IgnoredKeys ==
  epc = "loaded" =>
    /\ ~env.set => ignoredKeys = <<>>
    /\ env.set =>
         /\ Len(ignoredKeys) = Cardinality(EntryStarts(env.value))
         /\ \A k \in 1..Len(ignoredKeys) :
              LET i == KthStart(EntryStarts(env.value), k) IN
                ignoredKeys[k] = SubSeq(env.value, i, EntryEnd(env.value, i))
    /\ (env.set /\ env.value = <<"a", ",", ",", "b">>) => ignoredKeys = << <<"a">>, <<"b">> >>
    /\ \A k \in 1..Len(ignoredKeys) : ignoredKeys[k] # <<>>

C9_Witness ==
  /\ epc = "loaded" /\ env.set
  /\ env.value = <<"a", ",", ",", "b">>
  /\ ignoredKeys = << <<"a">>, <<"b">> >>

====
